---- MODULE Spec2Model ----
(***************************************************************************)
(* A model of ChartManager (visualization.py): the forecast-visibility     *)
(* flag, the cached dataset, the axes content, the figure's subplot        *)
(* parameters and the last content flushed to the canvas, with one action  *)
(* per public method.  calculate_forecast is modelled as an operator over  *)
(* calendar dates and exact rationals and is also exercised on its own     *)
(* under SpecForecast.                                                     *)
(***************************************************************************)
EXTENDS Integers, Sequences, FiniteSets, TLC

VARIABLES
    show_forecast,  \* self.show_forecast
    current_data,   \* self.current_data (tag "unset" until first assigned)
    ax,             \* content of self.ax (in memory, not necessarily flushed)
    fig,            \* subplot parameters of self.fig
    canvas,         \* what the last self.canvas.draw() put on screen
    last,           \* the call that made the last step, and how it ended
    updated,        \* whether a caller has called update_plot
    lastData,       \* the last dataset with rows a caller passed to update_plot
    fc_in,          \* arguments of a direct calculate_forecast call
    fc_out          \* its result

vars == <<show_forecast, current_data, ax, fig, canvas, last, updated, lastData,
         fc_in, fc_out>>

chartVars == <<show_forecast, current_data, ax, fig, canvas, last, updated, lastData>>

----------------------------------------------------------------------------
(* Bounds of the model *)

\* rows of a dataset handed to update_plot
MaxRows == 2
\* dates handed to a direct calculate_forecast call
MaxFcLen == 3
\* years_to_forecast of a direct calculate_forecast call
MaxYears == 2

\* placeholder texts setup_initial_plot may stack on axes it does not clear
MaxTexts == 1

\* default of years_to_forecast
DefaultYears == 6

----------------------------------------------------------------------------
(* A local variable: Body of the value of v, with v evaluated once *)

Let(v, Body(_)) == CHOOSE out \in { Body(x) : x \in {v} } : TRUE

\* a sequence with its elements evaluated
Values(s) == SubSeq(s, 1, Len(s))

----------------------------------------------------------------------------
(* Calendar: a date is [y, m, d] *)

Date(y, m, d) == [y |-> y, m |-> m, d |-> d]

IsLeap(y) == (y % 4 = 0) /\ ((y % 100 # 0) \/ (y % 400 = 0))

DaysInMonth(y, m) ==
    IF m = 2 THEN (IF IsLeap(y) THEN 29 ELSE 28)
    ELSE IF m \in {4, 6, 9, 11} THEN 30 ELSE 31

RECURSIVE DaysBeforeMonth(_, _)
DaysBeforeMonth(y, m) ==
    IF m = 1 THEN 0 ELSE DaysBeforeMonth(y, m - 1) + DaysInMonth(y, m - 1)

\* datetime.toordinal: days since 0001-01-01, which is day 1
toordinal(dt) ==
    LET p == dt.y - 1
    IN  p * 365 + (p \div 4) - (p \div 100) + (p \div 400)
        + DaysBeforeMonth(dt.y, dt.m) + dt.d

MonthIdx(dt) == dt.y * 12 + (dt.m - 1)

\* the last day of month number k (k = year * 12 + month - 1)
MonthEnd(k) ==
    LET y == k \div 12
        m == (k % 12) + 1
    IN  Date(y, m, DaysInMonth(y, m))

IsMonthEnd(dt) == dt.d = DaysInMonth(dt.y, dt.m)

\* pd.date_range(start=start, periods=periods, freq='ME'): the month ends on or
\* after start, periods of them
date_range_periods(start, periods) ==
    [i \in 1..periods |-> MonthEnd(MonthIdx(start) + i - 1)]

\* pd.date_range(start=start, end=end, freq='ME'): the month ends in [start, end]
date_range_end(start, end) ==
    LET k0 == MonthIdx(start)
        k1 == IF IsMonthEnd(end) THEN MonthIdx(end) ELSE MonthIdx(end) - 1
    IN  [i \in 1..(k1 - k0 + 1) |-> MonthEnd(k0 + i - 1)]

----------------------------------------------------------------------------
(* Least-squares line.  A fitted value is the exact rational <<num, den>>. *)

RECURSIVE SumSeq(_)
SumSeq(s) == IF s = <<>> THEN 0 ELSE Head(s) + SumSeq(Tail(s))

\* np.polyfit(x, y, 1): the line through the points, kept as the sums it is
\* made of.  slope = N / D, and the line passes through (Sx / n, Sy / n).
\* D = 0 (one point, or all x equal) is the rank-deficient case.
polyfit(x, y) ==
    Let([n |-> Len(x), Sx |-> SumSeq(x), Sy |-> SumSeq(y)], LAMBDA s :
        [n  |-> s.n, Sx |-> s.Sx, Sy |-> s.Sy,
         N  |-> SumSeq([i \in 1..s.n |-> (s.n * x[i] - s.Sx) * (s.n * y[i] - s.Sy)]),
         D  |-> SumSeq([i \in 1..s.n |-> (s.n * x[i] - s.Sx) * (s.n * x[i] - s.Sx)])])

RankDeficient(c) == c.D = 0

\* np.poly1d(coefficients)(X).  In the rank-deficient case numpy returns the
\* minimum-norm solution; its value is kept as <<0, 0>> (no line is determined).
polynomial(c, X) ==
    IF RankDeficient(c) THEN <<0, 0>>
    ELSE <<c.Sy * c.D + c.N * (c.n * X - c.Sx), c.n * c.D>>

PeriodsYearsOnly(years_to_forecast) == years_to_forecast + 1

\* periods=years_to_forecast * 12 + 1
Periods(years_to_forecast) == years_to_forecast * 12 + 1

\* ChartManager.calculate_forecast
calculate_forecast(dates, prices, years_to_forecast) ==
    LET date_ordinals == [i \in 1..Len(dates) |-> toordinal(dates[i])]
        last_date     == dates[Len(dates)]
        periods       == Periods(years_to_forecast)
        future_dates  == date_range_periods(last_date, periods)
        first_date    == dates[1]
    IN  Let(polyfit(date_ordinals, prices), LAMBDA coefficients :
        Let(Values(date_range_end(first_date, future_dates[periods])), LAMBDA all_dates :
            [all_dates       |-> all_dates,
             forecast_values |-> [i \in 1..Len(all_dates) |->
                                     polynomial(coefficients, toordinal(all_dates[i]))],
             rank_deficient  |-> RankDeficient(coefficients)]))

----------------------------------------------------------------------------
(* Datasets.  A location value is its rank among the values of its column   *)
(* in sort order (stateabbr 1 = "AZ", 2 = "CA"); 0 stands in a column the   *)
(* dataset does not have.  A price cell is [t, v]: a float, a Decimal as    *)
(* the database driver returns it, or a str that is no number.              *)

Row(date, t, v, st, city, zip, iz) ==
    [date |-> date, price |-> [t |-> t, v |-> v],
     stateabbr |-> st, city |-> city, zipcode |-> zip, included_zipcodes |-> iz]

\* rows in ascending date order, as the caller sorts them; the last one has a
\* price that is no number
RowPool ==
    << Row(Date(2020, 1, 31), "Decimal", 30, 2, 1, 3, 7),
       Row(Date(2020, 2, 29), "Decimal", 10, 1, 2, 1, 5),
       Row(Date(2020, 3, 31), "Decimal", 20, 1, 2, 2, 5),
       Row(Date(2020, 4, 30), "str",      0, 1, 2, 1, 5) >>

\* the rows the callers of Spec draw from
SmallPool == <<RowPool[1], RowPool[2], RowPool[4]>>

OptionalColumns == {"stateabbr", "city", "zipcode", "included_zipcodes"}

Project(row, columns) ==
    [row EXCEPT !.stateabbr = IF "stateabbr" \in columns THEN @ ELSE 0,
                !.city = IF "city" \in columns THEN @ ELSE 0,
                !.zipcode = IF "zipcode" \in columns THEN @ ELSE 0,
                !.included_zipcodes = IF "included_zipcodes" \in columns THEN @ ELSE 0]

RECURSIVE Ascending(_)
Ascending(S) ==
    IF S = {} THEN <<>>
    ELSE LET lo == CHOOSE i \in S : \A j \in S : i <= j
         IN  <<lo>> \o Ascending(S \ {lo})

DataFrame(columns, pool, picked) ==
    LET idx == Ascending(picked)
    IN  [tag |-> "DataFrame", columns |-> columns,
         rows |-> [i \in 1..Len(idx) |-> Project(pool[idx[i]], columns)]]

\* the datasets with rows over a pool: every choice of at most MaxRows rows
Frames(columnSets, pool) ==
    { DataFrame(columns, pool, picked) :
        columns \in columnSets,
        picked \in { S \in SUBSET (1..Len(pool)) : S # {} /\ Cardinality(S) <= MaxRows } }

EmptyFrame == DataFrame(OptionalColumns, RowPool, {})

\* every set of optional columns
AllDatasets == Frames(SUBSET OptionalColumns, RowPool) \cup {EmptyFrame}

\* national, per-state and per-zipcode queries
Datasets ==
    Frames({ {"included_zipcodes"},
             {"stateabbr", "included_zipcodes"},
             {"stateabbr", "city", "zipcode", "included_zipcodes"} }, SmallPool)
    \cup {EmptyFrame}

NoneData == [tag |-> "None", columns |-> {}, rows |-> <<>>]

\* the state of an attribute that was never assigned
Unset == [tag |-> "unset", columns |-> {}, rows |-> <<>>]

Inputs == {NoneData} \cup Datasets

AllInputs == {NoneData} \cup AllDatasets

\* data is not None and not data.empty
HasData(data) == data.tag = "DataFrame" /\ data.rows # <<>>

\* whether data['price'].astype(float) succeeds
Coercible(data) == \A i \in 1..Len(data.rows) : data.rows[i].price.t # "str"

\* data['price'] = data['price'].astype(float), in place
astype_float(data) ==
    [data EXCEPT !.rows = [i \in 1..Len(data.rows) |->
                              [data.rows[i] EXCEPT !.price.t = "float"]]]

----------------------------------------------------------------------------
(* Axes content *)

\* one line of a title; a, b, c are the values formatted into it
TitleLine(kind, a, b, c) == [kind |-> kind, a |-> a, b |-> b, c |-> c]

Text(s, color) == [s |-> s, color |-> color]

\* self.ax after ax.clear(), and as constructed
EmptyAxes ==
    [title |-> <<>>, xlabel |-> "", ylabel |-> "", texts |-> <<>>, lines |-> <<>>,
     legend |-> FALSE, grid |-> FALSE, xformat |-> "", yformat |-> "", xrotation |-> 0]

\* ax.clear(): whatever the axes held is gone
clear(a) == EmptyAxes

PlaceholderText == Text("Select filters and click Update Viz", "default")

NoDataText ==
    Text("No data found for the given criteria\nTry different search parameters", "default")

\* the figure's subplot parameters: bottom, and left/right/top together
DefaultFig == [bottom |-> "default", others |-> "default"]

\* fig.tight_layout() recomputes all four margins from the content
tight_layout(f) == [bottom |-> "tight", others |-> "tight"]

\* fig.subplots_adjust(bottom=0.2) sets bottom and keeps the other margins
subplots_adjust_bottom(f) == [f EXCEPT !.bottom = "0.2"]

\* canvas.draw(): the figure as it is now goes to the screen
Flush(a, f) == [drawn |-> TRUE, ax |-> a, fig |-> f]

----------------------------------------------------------------------------
(* Formatting *)

\* f"{x:,.0f}" of the rational num / den (den > 0): round half to even
Format0(num, den) ==
    LET q == num \div den
        r == num - q * den
    IN  IF 2 * r < den THEN q
        ELSE IF 2 * r > den THEN q + 1
        ELSE IF q % 2 = 0 THEN q ELSE q + 1

RECURSIVE MinSeq(_)
MinSeq(s) ==
    IF Len(s) = 1 THEN s[1]
    ELSE LET m == MinSeq(Tail(s)) IN IF s[1] <= m THEN s[1] ELSE m

RECURSIVE MaxSeq(_)
MaxSeq(s) ==
    IF Len(s) = 1 THEN s[1]
    ELSE LET m == MaxSeq(Tail(s)) IN IF s[1] >= m THEN s[1] ELSE m

PriceValues(rows) == [i \in 1..Len(rows) |-> rows[i].price.v]

DateValues(rows) == [i \in 1..Len(rows) |-> rows[i].date]

----------------------------------------------------------------------------
(* update_plot, the branch for a dataset with rows *)

location_cols(data) ==
    IF "stateabbr" \in data.columns
    THEN <<"stateabbr">> \o
         (IF "city" \in data.columns
          THEN <<"city">> \o
               (IF "zipcode" \in data.columns THEN <<"zipcode">> ELSE <<>>)
          ELSE <<>>)
    ELSE <<>>

\* the title derivation reads a column the dataset does not have (KeyError)
TitleRaises(data) ==
    \/ "city" \in data.columns /\ "stateabbr" \notin data.columns
    \/ "included_zipcodes" \notin data.columns

main_title(data) ==
    IF "city" \in data.columns
    THEN TitleLine("Housing Prices in {city}, {stateabbr}",
                   data.rows[1].city, data.rows[1].stateabbr, 0)
    ELSE IF "stateabbr" \in data.columns
    THEN TitleLine("Housing Prices in {stateabbr}", data.rows[1].stateabbr, 0, 0)
    ELSE TitleLine("Housing Prices in United States", 0, 0, 0)

avg_desc(data) ==
    TitleLine("(Average across {included_zipcodes:.0f} zipcodes)",
              data.rows[1].included_zipcodes, 0, 0)

\* title = f"\n{main_title}": an empty line, then main_title; avg_desc is not in it
title(data) == <<TitleLine("", 0, 0, 0), main_title(data)>>

KeyOf(row, cols) == [i \in 1..Len(cols) |-> row[cols[i]]]

RECURSIVE KeyLess(_, _)
KeyLess(k1, k2) ==
    /\ k1 # <<>>
    /\ \/ Head(k1) < Head(k2)
       \/ Head(k1) = Head(k2) /\ KeyLess(Tail(k1), Tail(k2))

RECURSIVE SortKeys(_)
SortKeys(K) ==
    IF K = {} THEN <<>>
    ELSE LET lo == CHOOSE k \in K : \A j \in K \ {k} : KeyLess(k, j)
         IN  <<lo>> \o SortKeys(K \ {lo})

\* data.groupby(location_cols): the distinct keys in sorted order
GroupKeys(data, cols) ==
    SortKeys({ KeyOf(data.rows[i], cols) : i \in 1..Len(data.rows) })

GroupRows(data, cols, key) ==
    LET Test(row) == KeyOf(row, cols) = key IN SelectSeq(data.rows, Test)

Line(label, key, x, y, color, linestyle, alpha) ==
    [label |-> label, key |-> key, x |-> x, y |-> y,
     color |-> color, linestyle |-> linestyle, alpha |-> alpha]

ActualLine(label, key, rows, color) ==
    Line(label, key, DateValues(rows),
         [i \in 1..Len(rows) |-> <<rows[i].price.v, 1>>], color, "-", 100)

ForecastLine(label, key, fc, color) ==
    Line(label, key, fc.all_dates, fc.forecast_values, color, "--", 70)

NoLines == [lines |-> <<>>, raised |-> FALSE, forecast_values |-> <<>>]

\* One pass of a plotting branch over rows: the actual line, then with the
\* forecast on the line fit and the forecast line.  strict says whether numpy's
\* rank warning is raised as an error.
PlotSeries(rows, key, forecast, strict, actualLabel, actualColor, fcLabel, fcColor) ==
    Let(ActualLine(actualLabel, key, rows, actualColor), LAMBDA actual :
        IF ~forecast
        THEN [NoLines EXCEPT !.lines = <<actual>>]
        ELSE Let(calculate_forecast(DateValues(rows), PriceValues(rows), DefaultYears),
                 LAMBDA fc :
                 IF fc.rank_deficient /\ strict
                 THEN [NoLines EXCEPT !.lines = <<actual>>, !.raised = TRUE]
                 ELSE [lines |-> <<actual, ForecastLine(fcLabel, key, fc, fcColor)>>,
                       raised |-> FALSE,
                       forecast_values |-> fc.forecast_values]))

\* the loop over the groups, from group i on: the lines plotted, whether the
\* line fit raised, and the forecast_values left by the last fit
RECURSIVE PlotGroups(_, _, _, _, _, _)
PlotGroups(data, cols, keys, i, forecast, strict) ==
    IF i > Len(keys) THEN NoLines
    ELSE Let(PlotSeries(Values(GroupRows(data, cols, keys[i])), keys[i], forecast, strict,
                        "Actual - {label}", "cycle",
                        "Forecast - {label} (6 years)", "cycle"),
             LAMBDA one :
             IF one.raised THEN one
             ELSE Let(PlotGroups(data, cols, keys, i + 1, forecast, strict),
                      LAMBDA rest :
                      [lines  |-> one.lines \o rest.lines,
                       raised |-> rest.raised,
                       forecast_values |->
                           IF rest.forecast_values # <<>> THEN rest.forecast_values
                           ELSE one.forecast_values]))

\* the branch without location columns
PlotAll(data, forecast, strict) ==
    PlotSeries(data.rows, <<>>, forecast, strict,
               "Actual Data", "accent", "Forecast (6 years)", "red")

PlotLines(data, forecast, strict) ==
    Let(location_cols(data), LAMBDA cols :
        IF cols # <<>>
        THEN PlotGroups(data, cols, Values(GroupKeys(data, cols)), 1, forecast, strict)
        ELSE PlotAll(data, forecast, strict))

has_multiple_linesOffByOne(data) ==
    LET cols == location_cols(data)
    IN  cols # <<>> /\ Len(GroupKeys(data, cols)) > 2

has_multiple_lines(data) ==
    LET cols == location_cols(data)
    IN  cols # <<>> /\ Len(GroupKeys(data, cols)) > 1

\* stats_text, a line per "\n"
stats_text(data, forecast, forecast_values) ==
    LET p == PriceValues(data.rows)
        v == forecast_values[Len(forecast_values)]
    IN  <<TitleLine("Avg: ${mean:,.0f} | Min: ${min:,.0f} | Max: ${max:,.0f}",
                    Format0(SumSeq(p), Len(p)), MinSeq(p), MaxSeq(p))>>
        \o (IF forecast
            THEN <<TitleLine("Forecasted Value (6 years): ${last:,.0f}",
                             IF v[2] = 0 THEN 0 ELSE Format0(v[1], v[2]), v[2], 0)>>
            ELSE <<>>)

ShowLegendMultipleOnly(data, forecast) == has_multiple_lines(data)

ShowLegend(data, forecast) == has_multiple_lines(data) \/ forecast

\* the layout step
Layout(data, forecast, f) ==
    IF ShowLegend(data, forecast) THEN subplots_adjust_bottom(f) ELSE tight_layout(f)

\* the axes when the whole branch has run on the cleared axes a
ChartAxes(a, data, forecast, plotted) ==
    [a EXCEPT !.title     = title(data)
                            \o stats_text(data, forecast, plotted.forecast_values),
              !.xlabel    = "Date",
              !.ylabel    = "Average Home Value ($)",
              !.lines     = @ \o plotted.lines,
              !.legend    = ShowLegend(data, forecast),
              !.grid      = TRUE,
              !.xformat   = "%Y-%m-%d",
              !.yformat   = "${x:,.0f}",
              !.xrotation = 45]

\* The branch of update_plot for a dataset with rows, after self.current_data is
\* assigned, on axes holding a and a figure laid out as f: what it leaves in the
\* dataset (coerced in place), the axes and the figure, and whether it raised
\* before reaching canvas.draw().
Render(data, forecast, strict, a, f) ==
    IF ~Coercible(data)
    THEN [raised |-> TRUE, data |-> data, ax |-> clear(a), fig |-> f]
    ELSE Let(astype_float(data), LAMBDA d :
         IF TitleRaises(d)
         THEN [raised |-> TRUE, data |-> d, ax |-> clear(a), fig |-> f]
         ELSE Let(PlotLines(d, forecast, strict), LAMBDA plotted :
              IF plotted.raised
              THEN [raised |-> TRUE, data |-> d,
                    ax |-> [clear(a) EXCEPT !.lines = @ \o plotted.lines], fig |-> f]
              ELSE [raised |-> FALSE, data |-> d,
                    ax |-> ChartAxes(clear(a), d, forecast, plotted),
                    fig |-> Layout(d, forecast, f)]))

----------------------------------------------------------------------------
(* The public methods *)

Messages == {"X", "Query failed"}

StoreDataAlways(cur, data) == data

\* self.current_data = data, on the branch for a dataset with rows only
StoreData(cur, data) == IF HasData(data) THEN data ELSE cur

\* setup_initial_plot on axes holding a: nothing is cleared
SetupAxes(a) ==
    [a EXCEPT !.title  = <<TitleLine("Housing Prices Over Time", 0, 0, 0)>>,
              !.xlabel = "Date",
              !.ylabel = "Price ($)",
              !.texts  = Append(@, PlaceholderText)]

NoDataAxesUncleared(a) == [a EXCEPT !.texts = Append(@, NoDataText)]

\* the else branch of update_plot
NoDataAxes(a) == [clear(a) EXCEPT !.texts = Append(@, NoDataText)]

ErrorAxes(a, message) == [clear(a) EXCEPT !.texts = Append(@, Text(message, "red"))]

\* update_plot(data) with the flag at forecast: the new values of the fields it
\* writes, the dataset as the call leaves it, and whether it raised
update_plot(data, forecast, strict) ==
    IF HasData(data)
    THEN Let(Render(StoreData(current_data, data), forecast, strict, ax, fig),
             LAMBDA r :
             [current_data |-> r.data, ax |-> r.ax, fig |-> r.fig,
              canvas |-> IF r.raised THEN canvas ELSE Flush(r.ax, r.fig),
              raised |-> r.raised])
    ELSE [current_data |-> StoreData(current_data, data),
          ax |-> NoDataAxes(ax), fig |-> fig,
          canvas |-> Flush(NoDataAxes(ax), fig), raised |-> FALSE]

\* The line fit of a group with a single date is rank deficient: numpy warns,
\* and raises when warnings are errors.  Both outcomes are taken.
FitOutcomes(forecast) == IF forecast THEN BOOLEAN ELSE {FALSE}

ArgKind(data) ==
    IF data.tag = "None" THEN "None" ELSE IF data.rows = <<>> THEN "empty" ELSE "rows"

ShowsError(a) == \E message \in Messages : a = ErrorAxes(EmptyAxes, message)

\* a call: the method, the kind of its argument, whether it raised, whether it
\* reached canvas.draw(), and whether the screen showed an error message then
Call(op, arg, raised, flushed) ==
    [op |-> op, arg |-> arg, raised |-> raised, flushed |-> flushed,
     on_error |-> canvas.drawn /\ ShowsError(canvas.ax)]

SetupInitialPlot ==
    /\ Len(ax.texts) < MaxTexts
    /\ ax' = SetupAxes(ax)
    /\ canvas' = Flush(ax', fig)
    /\ last' = Call("setup_initial_plot", "", FALSE, TRUE)
    /\ UNCHANGED <<show_forecast, current_data, fig, updated, lastData, fc_in, fc_out>>

UpdatePlot(data, strict) ==
    \E u \in {update_plot(data, show_forecast, strict)} :
        /\ current_data' = u.current_data
        /\ ax' = u.ax
        /\ fig' = u.fig
        /\ canvas' = u.canvas
        /\ last' = Call("update_plot", ArgKind(data), u.raised, ~u.raised)
        /\ updated' = TRUE
        \* the caller's dataset is the object current_data now refers to
        /\ lastData' = IF HasData(data) THEN u.current_data ELSE lastData
        /\ UNCHANGED <<show_forecast, fc_in, fc_out>>

FlipStuck(forecast) == TRUE

\* not self.show_forecast
Flip(forecast) == ~forecast

ToggleTrendLine(strict) ==
    /\ show_forecast' = Flip(show_forecast)
    /\ IF current_data.tag # "unset"
       THEN \E u \in {update_plot(current_data, show_forecast', strict)} :
                /\ current_data' = u.current_data
                /\ ax' = u.ax
                /\ fig' = u.fig
                /\ canvas' = u.canvas
                /\ last' = Call("toggle_trend_line", "", u.raised, ~u.raised)
                /\ lastData' = IF lastData = current_data THEN u.current_data
                                                          ELSE lastData
       ELSE /\ last' = Call("toggle_trend_line", "", FALSE, FALSE)
            /\ UNCHANGED <<current_data, ax, fig, canvas, lastData>>
    /\ UNCHANGED <<updated, fc_in, fc_out>>

ShowError(message) ==
    /\ ax' = ErrorAxes(ax, message)
    /\ canvas' = Flush(ax', fig)
    /\ last' = Call("show_error", "", FALSE, TRUE)
    /\ UNCHANGED <<show_forecast, current_data, fig, updated, lastData, fc_in, fc_out>>

ClearPlot ==
    /\ ax' = SetupAxes(clear(ax))
    /\ canvas' = Flush(ax', fig)
    /\ last' = Call("clear_plot", "", FALSE, TRUE)
    /\ UNCHANGED <<show_forecast, current_data, fig, updated, lastData, fc_in, fc_out>>

NoForecastCall == [dates |-> <<>>, prices |-> <<>>, years_to_forecast |-> 0]

NoForecastResult == [called |-> FALSE, all_dates |-> <<>>, forecast_values |-> <<>>]

\* the state after __init__, on a figure nothing was drawn on
InitChart ==
    /\ show_forecast = FALSE
    /\ current_data = Unset
    /\ ax = EmptyAxes
    /\ fig = DefaultFig
    /\ canvas = [drawn |-> FALSE, ax |-> EmptyAxes, fig |-> DefaultFig]
    /\ last = [op |-> "__init__", arg |-> "", raised |-> FALSE, flushed |-> FALSE,
               on_error |-> FALSE]
    /\ updated = FALSE
    /\ lastData = Unset

Init ==
    /\ InitChart
    /\ fc_in = NoForecastCall
    /\ fc_out = NoForecastResult

Next ==
    \/ SetupInitialPlot
    \/ \E data \in Inputs : \E strict \in FitOutcomes(show_forecast) :
          UpdatePlot(data, strict)
    \/ \E strict \in FitOutcomes(~show_forecast) : ToggleTrendLine(strict)
    \/ \E message \in Messages : ShowError(message)
    \/ ClearPlot

Spec == Init /\ [][Next]_vars

----------------------------------------------------------------------------
(* The first update_plot call of a chart, over every column set *)

NextFirstRender ==
    \/ \E data \in AllInputs : \E strict \in FitOutcomes(show_forecast) :
          ~updated /\ UpdatePlot(data, strict)
    \/ \E strict \in FitOutcomes(~show_forecast) : ~updated /\ ToggleTrendLine(strict)

SpecFirstRender == Init /\ [][NextFirstRender]_vars

----------------------------------------------------------------------------
(* calculate_forecast called on its own *)

FcDatePool ==
    << Date(2019, 12, 31), Date(2020, 1, 15), Date(2020, 1, 31), Date(2020, 2, 28),
       Date(2020, 2, 29), Date(2020, 3, 31), Date(2020, 4, 30) >>

FcPricePool == <<2, 1, 3, 2, 4, 2, 3>>

FcInputs ==
    { LET idx == Ascending(picked)
      IN  [dates |-> [i \in 1..Len(idx) |-> FcDatePool[idx[i]]],
           prices |-> [i \in 1..Len(idx) |-> FcPricePool[idx[i]]],
           years_to_forecast |-> years] :
        picked \in { S \in SUBSET (1..Len(FcDatePool)) :
                       Cardinality(S) >= 2 /\ Cardinality(S) <= MaxFcLen },
        years \in 0..MaxYears }

InitForecast ==
    /\ InitChart
    /\ fc_in \in FcInputs
    /\ fc_out = NoForecastResult

CallForecast ==
    /\ ~fc_out.called
    /\ LET r == calculate_forecast(fc_in.dates, fc_in.prices, fc_in.years_to_forecast)
       IN  fc_out' = [called |-> TRUE, all_dates |-> r.all_dates,
                      forecast_values |-> r.forecast_values]
    /\ UNCHANGED <<chartVars, fc_in>>

NextForecast == CallForecast

SpecForecast == InitForecast /\ [][NextForecast]_vars

----------------------------------------------------------------------------
(* What is on the axes *)

LocationColumns == {"stateabbr", "city", "zipcode"}

IsActual(line) == line.linestyle = "-"

IsForecast(line) == line.linestyle = "--"

ActualLines(a) == { i \in DOMAIN a.lines : IsActual(a.lines[i]) }

ForecastLines(a) == { i \in DOMAIN a.lines : IsForecast(a.lines[i]) }

IsPlaceholder(a) == a = SetupAxes(EmptyAxes)

IsNoData(a) == a = NoDataAxes(EmptyAxes)

IsSeriesChart(a) ==
    /\ a.texts = <<>>
    /\ a.lines # <<>>
    /\ a.ylabel = "Average Home Value ($)"
    /\ a.grid

\* exactly one of the four rendered states
ExactlyOneState(a) ==
    Cardinality({ k \in 1..4 : \/ k = 1 /\ IsPlaceholder(a)
                               \/ k = 2 /\ IsSeriesChart(a)
                               \/ k = 3 /\ IsNoData(a)
                               \/ k = 4 /\ ShowsError(a) }) = 1

\* the last call ran the branch of update_plot for a dataset with rows to the end
Rendered ==
    /\ last.flushed
    /\ \/ last.op = "toggle_trend_line"
       \/ last.op = "update_plot" /\ last.arg = "rows"

\* what update_plot(data) renders on a chart nothing was drawn on
FreshRenders(data, forecast) ==
    { r \in { Render(data, forecast, strict, EmptyAxes, DefaultFig) : strict \in BOOLEAN } :
        ~r.raised }

\* the distinct combinations of the location columns of data
Combinations(data) ==
    { KeyOf(data.rows[i], location_cols(data)) : i \in DOMAIN data.rows }

----------------------------------------------------------------------------
(* C1 *)

\* C1 as stated: toggle_trend_line flips show_forecast; before any update_plot
\* call nothing is redrawn; after an update_plot call the last dataset passed to
\* update_plot is rendered again and flushed, with forecast lines iff the new
\* flag is true.
C1_ToggleRedrawsAfterAnyUpdate ==
    [][last'.op = "toggle_trend_line" =>
        /\ show_forecast' = ~show_forecast
        /\ ~updated => (~last'.flushed /\ canvas' = canvas)
        /\ updated =>
             /\ last'.flushed
             /\ HasData(lastData')
             /\ \E r \in FreshRenders(lastData', show_forecast') : canvas'.ax = r.ax
             /\ (ForecastLines(canvas'.ax) # {}) <=> show_forecast']_vars

\* C1 amended: toggle_trend_line flips show_forecast; while no dataset with rows
\* was passed to update_plot nothing is redrawn; afterwards current_data is the
\* last such dataset and is rendered again: when that render returns the flushed
\* chart is its chart under the new flag, with forecast lines iff the flag is
\* true, and when it raises nothing is flushed.
C1_ToggleRedrawsCurrentData ==
    [][last'.op = "toggle_trend_line" =>
        /\ show_forecast' = ~show_forecast
        /\ lastData = Unset => (~last'.flushed /\ canvas' = canvas /\ ax' = ax)
        /\ lastData # Unset =>
             /\ current_data = lastData
             /\ current_data' = lastData'
             /\ last'.flushed = ~last'.raised
             /\ last'.raised => canvas' = canvas
             /\ ~last'.raised =>
                  /\ \E r \in FreshRenders(lastData', show_forecast') :
                        canvas'.ax = r.ax
                  /\ (ForecastLines(canvas'.ax) # {}) <=> show_forecast']_vars

\* a toggle that redrew the chart with forecast lines
C1_Witness ==
    /\ last.op = "toggle_trend_line"
    /\ last.flushed
    /\ show_forecast
    /\ ForecastLines(canvas.ax) # {}

----------------------------------------------------------------------------
(* C2 *)

\* C2: update_plot with None or an empty dataset, show_error and clear_plot
\* leave show_forecast and current_data as they were.
C2_FrameOfNonRenderingCalls ==
    [][(\/ last'.op \in {"show_error", "clear_plot"}
        \/ last'.op = "update_plot" /\ last'.arg \in {"None", "empty"}) =>
        /\ show_forecast' = show_forecast
        /\ current_data' = current_data]_vars

\* update_plot(None) made with a dataset cached and the forecast on
C2_Witness ==
    /\ last.op = "update_plot"
    /\ last.arg = "None"
    /\ HasData(current_data)
    /\ show_forecast

----------------------------------------------------------------------------
(* C3 *)

\* C3: the title update_plot sets for a dataset with rows contains the line
\* "(Average across {included_zipcodes:.0f} zipcodes)" of the first row.
C3_TitleHasAvgDesc ==
    (last.op = "update_plot" /\ last.arg = "rows" /\ last.flushed) =>
        \E i \in DOMAIN canvas.ax.title : canvas.ax.title[i] = avg_desc(current_data)

----------------------------------------------------------------------------
(* C4 *)

\* C4: for a dataset with rows and none of the location columns, a completed
\* update_plot draws exactly one actual line, exactly one forecast line if
\* show_forecast and none otherwise, and shows the legend with the bottom margin
\* reserved iff show_forecast; otherwise the layout is the tight layout.
C4_NoLocationColumns ==
    (Rendered /\ current_data.columns \cap LocationColumns = {}) =>
        /\ Cardinality(ActualLines(canvas.ax)) = 1
        /\ Cardinality(ForecastLines(canvas.ax)) = (IF show_forecast THEN 1 ELSE 0)
        /\ canvas.ax.legend = show_forecast
        /\ show_forecast => canvas.fig.bottom = "0.2"
        /\ ~show_forecast => canvas.fig = tight_layout(DefaultFig)

\* a dataset without location columns rendered with the forecast on
C4_Witness ==
    /\ Rendered
    /\ current_data.columns \cap LocationColumns = {}
    /\ Len(current_data.rows) > 1
    /\ show_forecast

----------------------------------------------------------------------------
(* C5 *)

\* C5: for a dataset with N > 1 distinct combinations of its location columns, a
\* completed update_plot draws exactly N actual lines, one per combination, and
\* shows the legend and reserves the bottom margin whatever show_forecast is.
C5_OneLinePerCombination ==
    (Rendered /\ Cardinality(Combinations(current_data)) > 1) =>
        /\ Cardinality(ActualLines(canvas.ax)) = Cardinality(Combinations(current_data))
        /\ { canvas.ax.lines[i].key : i \in ActualLines(canvas.ax) }
              = Combinations(current_data)
        /\ canvas.ax.legend
        /\ canvas.fig.bottom = "0.2"

\* several combinations rendered with the forecast off
C5_Witness ==
    /\ Rendered
    /\ Cardinality(Combinations(current_data)) > 1
    /\ Len(location_cols(current_data)) > 1
    /\ ~show_forecast

----------------------------------------------------------------------------
(* C6 *)

\* C6 as stated: what a completed update_plot shows (lines, title, legend,
\* layout) depends only on the dataset and show_forecast: it is what the same
\* call shows on a chart nothing was drawn on.
C6_RenderIgnoresHistory ==
    Rendered =>
        \E r \in FreshRenders(current_data, show_forecast) :
            canvas.ax = r.ax /\ canvas.fig = r.fig

\* the divergence of C6 is confined to the margins: the axes content (lines,
\* title, legend) and the bottom margin of a completed update_plot are those of
\* the same call on a chart nothing was drawn on.
AxesIgnoreHistory ==
    Rendered =>
        \E r \in FreshRenders(current_data, show_forecast) :
            canvas.ax = r.ax /\ canvas.fig.bottom = r.fig.bottom

----------------------------------------------------------------------------
(* C7 *)

\* C7: if current_data is set, it has rows and its price column can be coerced
\* to numbers.
C7_CurrentDataValid ==
    current_data # Unset => (HasData(current_data) /\ Coercible(current_data))

----------------------------------------------------------------------------
(* C8 *)

\* C8 as stated: what is on the screen is exactly one of the four rendered
\* states, never a mixture.
C8_OneRenderedState == canvas.drawn => ExactlyOneState(canvas.ax)

\* C8 amended: every call that changes the screen leaves exactly one of the four
\* rendered states on it, except setup_initial_plot called on axes that hold
\* content, which it does not clear.
C8_OneRenderedStateUnlessStacked ==
    [][canvas' # canvas =>
        \/ ExactlyOneState(canvas'.ax)
        \/ last'.op = "setup_initial_plot" /\ ax # EmptyAxes]_vars

\* clear_plot after a chart: the placeholder, with the dataset and flag kept
C8_Witness ==
    /\ last.op = "clear_plot"
    /\ IsPlaceholder(canvas.ax)
    /\ HasData(current_data)
    /\ show_forecast

----------------------------------------------------------------------------
(* C9 *)

\* the date years later, clamped to the month's length
AddYears(dt, years) ==
    Date(dt.y + years, dt.m,
         IF dt.d > DaysInMonth(dt.y + years, dt.m)
         THEN DaysInMonth(dt.y + years, dt.m) ELSE dt.d)

Monthly(dates) ==
    /\ \A i \in DOMAIN dates : IsMonthEnd(dates[i])
    /\ \A i \in 1..(Len(dates) - 1) : MonthIdx(dates[i + 1]) = MonthIdx(dates[i]) + 1

ReachesHorizon ==
    toordinal(fc_out.all_dates[Len(fc_out.all_dates)])
        >= toordinal(AddYears(fc_in.dates[Len(fc_in.dates)], fc_in.years_to_forecast))

\* C9 as stated: the returned dates start at the first input date, end at least
\* years_to_forecast years after the last input date, are month ends one month
\* apart, and there is one fitted value per date.
C9_StartsAtFirstDate ==
    fc_out.called =>
        /\ fc_out.all_dates # <<>>
        /\ fc_out.all_dates[1] = fc_in.dates[1]
        /\ ReachesHorizon
        /\ Monthly(fc_out.all_dates)
        /\ Len(fc_out.forecast_values) = Len(fc_out.all_dates)

\* C9 amended: the returned dates start at the end of the month of the first
\* input date (the first input date itself when it is a month end), end at
\* least years_to_forecast years after the last input date, are month ends one
\* month apart, and there is one fitted value per date.
C9_StartsAtFirstMonthEnd ==
    fc_out.called =>
        /\ fc_out.all_dates # <<>>
        /\ IsMonthEnd(fc_out.all_dates[1])
        /\ MonthIdx(fc_out.all_dates[1]) = MonthIdx(fc_in.dates[1])
        /\ ReachesHorizon
        /\ Monthly(fc_out.all_dates)
        /\ Len(fc_out.forecast_values) = Len(fc_out.all_dates)

\* a forecast over dates that start in the middle of a month
C9_Witness ==
    /\ fc_out.called
    /\ ~IsMonthEnd(fc_in.dates[1])
    /\ fc_in.years_to_forecast > 0

----------------------------------------------------------------------------
(* C10 *)

\* C10: whenever the screen shows a series chart, it is the chart of
\* current_data under show_forecast, with forecast lines iff show_forecast.
C10_ChartMatchesState ==
    (canvas.drawn /\ IsSeriesChart(canvas.ax)) =>
        /\ \E r \in FreshRenders(current_data, show_forecast) : canvas.ax = r.ax
        /\ (ForecastLines(canvas.ax) # {}) <=> show_forecast

====
